---- MODULE Spec2Model ----
(***************************************************************************)
(* A model of corim/unsignedcorim.go: the unsigned-corim-map container,    *)
(* its builder methods (SetID, AddComid, AddCoswid, AddDependentRim,       *)
(* AddProfile), its validator (Valid) and its codec entry points (ToCBOR,  *)
(* FromCBOR, FromJSON).                                                    *)
(*                                                                         *)
(* A byte is a number in 0..255 and a byte slice is a sequence of bytes.   *)
(* A pointer to a slice (DependentRims, Profiles) is a record              *)
(* [present, items]: present = FALSE is the nil pointer.                   *)
(***************************************************************************)
EXTENDS Integers, Sequences, FiniteSets, TLC

VARIABLES
  o,     \* the UnsignedCorim the caller built with NewUnsignedCorim
  ret,   \* what the last builder call returned: "self" (o) or "nil"
  last   \* the last call made: its name, receiver and argument

vars == <<o, ret, last>>

(***************************************************************************)
(* Bounds of the model.                                                    *)
(***************************************************************************)
\* the container holds at most MaxItems tags, locators and profiles in all
MaxItems == 2

(***************************************************************************)
(* Values of the collaborating packages (swid, comid, eat).                *)
(***************************************************************************)
\* swid.TagID{}: the zero value, the "empty id" sentinel
EmptyTagID == [kind |-> "none", val |-> ""]

\* a nil *swid.TagID
NilTagID == [kind |-> "nil", val |-> ""]

\* inputs of SetID: strings and byte arrays (len is the length of the input)
IDInputs ==
  { [kind |-> "string", len |-> 0,  val |-> ""],
    [kind |-> "string", len |-> 7,  val |-> "corim-1"],
    [kind |-> "bytes",  len |-> 16, val |-> "000102030405060708090a0b0c0d0e0f"],
    [kind |-> "bytes",  len |-> 3,  val |-> "000102"] }

\* swid.NewTagID: a non-empty string or a 16-byte UUID gives a TagID,
\* anything else gives nil
NewTagID(v) ==
  CASE v.kind = "string" /\ v.len > 0  -> [kind |-> "string", val |-> v.val]
    [] v.kind = "bytes"  /\ v.len = 16 -> [kind |-> "uuid", val |-> v.val]
    [] OTHER                           -> NilTagID

\* a sub-manifest (comid.Comid or swid.SoftwareIdentity) as the container
\* sees it: whether its own validator accepts it, whether its serializer
\* fails, and the bytes its serializer returns
Docs ==
  { [valid |-> TRUE,  encErr |-> FALSE, cbor |-> <<160>>],
    [valid |-> TRUE,  encErr |-> FALSE, cbor |-> <<161, 0>>],
    [valid |-> FALSE, encErr |-> FALSE, cbor |-> <<160>>],
    [valid |-> TRUE,  encErr |-> TRUE,  cbor |-> <<>>] }

\* c.Valid() of a sub-manifest: TRUE when it returns a nil error
DocValid(c) == c.valid

\* c.ToCBOR() of a sub-manifest: the bytes and whether err is non-nil
DocToCBOR(c) == [bytes |-> c.cbor, err |-> c.encErr]

\* a nil *swid.HashEntry
NilHashEntry == [HashAlgID |-> 0, HashValue |-> 0]

\* hash entries: the algorithm id and the length of the digest
GoodHashEntry == [HashAlgID |-> 1, HashValue |-> 32]

BadHashEntry == [HashAlgID |-> 1, HashValue |-> 3]

\* swid.ValidHashEntry: a SHA-256 entry (algorithm 1) has a 32-byte digest
ValidHashEntry(alg, len) == alg = 1 /\ len = 32

\* inputs of AddDependentRim
LocatorInputs ==
  { [href |-> "",                        thumbprint |-> NilHashEntry],
    [href |-> "https://example.org/rim", thumbprint |-> NilHashEntry],
    [href |-> "https://example.org/rim", thumbprint |-> GoodHashEntry],
    [href |-> "https://example.org/rim", thumbprint |-> BadHashEntry] }

\* eat.Profile values: a URI, an OID, or the zero value that is neither
URIProfile == [kind |-> "uri", val |-> "https://example.org/profile"]

OIDProfile == [kind |-> "oid", val |-> "2.16.840.1.101.3.4"]

ZeroProfile == [kind |-> "none", val |-> ""]

ProfileInputs ==
  { "https://example.org/profile", "2.16.840.1.101.3.4", "not-a-uri-not-an-oid" }

\* eat.NewProfile: the profile and whether err is non-nil
NewProfile(s) ==
  CASE s = "https://example.org/profile" -> [p |-> URIProfile, err |-> FALSE]
    [] s = "2.16.840.1.101.3.4"          -> [p |-> OIDProfile, err |-> FALSE]
    [] OTHER                             -> [p |-> ZeroProfile, err |-> TRUE]

IsOID(p) == p.kind = "oid"

IsURI(p) == p.kind = "uri"

(***************************************************************************)
(* The container.                                                          *)
(***************************************************************************)
\* a nil pointer to a slice
NilList == [present |-> FALSE, items |-> <<>>]

\* new([]T): a pointer to an empty slice
NewList == [present |-> TRUE, items |-> <<>>]

\* NewUnsignedCorim: &UnsignedCorim{}
NewUnsignedCorim ==
  [ID |-> EmptyTagID, Tags |-> <<>>, DependentRims |-> NilList, Profiles |-> NilList]

\* the number of elements the container holds
Items(c) == Len(c.Tags) + Len(c.DependentRims.items) + Len(c.Profiles.items)

\* d9 01fa # tag(506)
comidTag == <<217, 1, 250>>

\* d9 01f9 # tag(505)
coswidTag == <<217, 1, 249>>

\* the result of a builder method: the container after the call and the
\* pointer returned
Result(c, r) == [o |-> c, ret |-> r]

(***************************************************************************)
(* Builder methods.  recv is the receiver of the call: "self" when the     *)
(* method is called on the container, "nil" when it is called on a nil     *)
(* pointer (the result of a builder call that failed earlier in a chain).  *)
(* c is the container before the call.                                     *)
(***************************************************************************)
\* SetID as it would be if a rejected value returned the receiver
SetID_returnsReceiver(recv, c, v) ==
  IF recv # "nil"
    THEN LET tagID == NewTagID(v) IN
           IF tagID = NilTagID
             THEN Result(c, recv)
             ELSE Result([c EXCEPT !.ID = tagID], recv)
    ELSE Result(c, recv)

SetID(recv, c, v) ==
  IF recv # "nil"
    THEN LET tagID == NewTagID(v) IN
           IF tagID = NilTagID
             THEN Result(c, "nil")
             ELSE Result([c EXCEPT !.ID = tagID], recv)
    ELSE Result(c, recv)

\* AddComid as it would be if it appended the untagged encoding
AddComid_untagged(recv, c, doc) ==
  IF recv # "nil"
    THEN IF ~DocValid(doc)
           THEN Result(c, "nil")
           ELSE LET enc == DocToCBOR(doc) IN
                  IF enc.err
                    THEN Result(c, "nil")
                    ELSE Result([c EXCEPT !.Tags = Append(@, enc.bytes)], recv)
    ELSE Result(c, recv)

AddComid(recv, c, doc) ==
  IF recv # "nil"
    THEN IF ~DocValid(doc)
           THEN Result(c, "nil")
           ELSE LET enc == DocToCBOR(doc) IN
                  IF enc.err
                    THEN Result(c, "nil")
                    ELSE LET taggedComid == comidTag \o enc.bytes IN
                           Result([c EXCEPT !.Tags = Append(@, taggedComid)], recv)
    ELSE Result(c, recv)

\* AddCoswid as it would be with the CoMID tag number
AddCoswid_comidTag(recv, c, doc) ==
  IF recv # "nil"
    THEN LET enc == DocToCBOR(doc) IN
           IF enc.err
             THEN Result(c, "nil")
             ELSE LET taggedCoswid == comidTag \o enc.bytes IN
                    Result([c EXCEPT !.Tags = Append(@, taggedCoswid)], recv)
    ELSE Result(c, recv)

\* the supplied CoSWID is not validated: it goes straight to the encoder
AddCoswid(recv, c, doc) ==
  IF recv # "nil"
    THEN LET enc == DocToCBOR(doc) IN
           IF enc.err
             THEN Result(c, "nil")
             ELSE LET taggedCoswid == coswidTag \o enc.bytes IN
                    Result([c EXCEPT !.Tags = Append(@, taggedCoswid)], recv)
    ELSE Result(c, recv)

\* AddDependentRim as it would be if it refused an empty href
AddDependentRim_validating(recv, c, href, thumbprint) ==
  IF recv # "nil"
    THEN IF href = ""
           THEN Result(c, "nil")
           ELSE LET l == [Href |-> href, Thumbprint |-> thumbprint]
                    rims == IF ~c.DependentRims.present THEN NewList ELSE c.DependentRims
                IN  Result([c EXCEPT !.DependentRims =
                                        [rims EXCEPT !.items = Append(@, l)]], recv)
    ELSE Result(c, recv)

\* AddDependentRim as it would be if it made a new list on every call
AddDependentRim_newList(recv, c, href, thumbprint) ==
  IF recv # "nil"
    THEN LET l == [Href |-> href, Thumbprint |-> thumbprint]
         IN  Result([c EXCEPT !.DependentRims =
                                 [NewList EXCEPT !.items = Append(@, l)]], recv)
    ELSE Result(c, recv)

AddDependentRim(recv, c, href, thumbprint) ==
  IF recv # "nil"
    THEN LET l == [Href |-> href, Thumbprint |-> thumbprint]
             rims == IF ~c.DependentRims.present THEN NewList ELSE c.DependentRims
         IN  Result([c EXCEPT !.DependentRims =
                                 [rims EXCEPT !.items = Append(@, l)]], recv)
    ELSE Result(c, recv)

\* AddProfile as it would be if it made the list before parsing
AddProfile_listFirst(recv, c, urlOrOID) ==
  IF recv # "nil"
    THEN LET np == NewProfile(urlOrOID)
             profiles == IF ~c.Profiles.present THEN NewList ELSE c.Profiles
         IN  IF np.err
               THEN Result([c EXCEPT !.Profiles = profiles], "nil")
               ELSE Result([c EXCEPT !.Profiles =
                                       [profiles EXCEPT !.items = Append(@, np.p)]], recv)
    ELSE Result(c, recv)

AddProfile(recv, c, urlOrOID) ==
  IF recv # "nil"
    THEN LET np == NewProfile(urlOrOID) IN
           IF np.err
             THEN Result(c, "nil")
             ELSE LET profiles == IF ~c.Profiles.present THEN NewList ELSE c.Profiles
                  IN  Result([c EXCEPT !.Profiles =
                                          [profiles EXCEPT !.items = Append(@, np.p)]], recv)
    ELSE Result(c, recv)

(***************************************************************************)
(* Validation.  An error is [cat, pos, cause]: cat is the check that       *)
(* failed (1 "empty id", 2 "tags validation failed", 3 "tag validation     *)
(* failed at pos", 4 "dependent RIM validation failed at pos", 5 "profile   *)
(* validation failed at pos"), pos the position reported and cause the     *)
(* wrapped error.  The nil error is NoError.                               *)
(***************************************************************************)
NoError == [cat |-> 0, pos |-> 0, cause |-> "nil"]

Err(cat, pos, cause) == [cat |-> cat, pos |-> pos, cause |-> cause]

\* Tag.Valid: the cause, "nil" for no error
TagValid(t) == IF Len(t) = 0 THEN "empty tag" ELSE "nil"

\* Locator.Valid: the cause, "nil" for no error
LocatorValid(l) ==
  IF l.Href = ""
    THEN "empty href"
    ELSE IF l.Thumbprint # NilHashEntry
              /\ ~ValidHashEntry(l.Thumbprint.HashAlgID, l.Thumbprint.HashValue)
           THEN "invalid locator thumbprint"
           ELSE "nil"

ValidProfile(p) ==
  IF ~IsOID(p) /\ ~IsURI(p) THEN "profile should be OID or URI" ELSE "nil"

\* the tag loop as it would be if it stopped at the last bad tag
RECURSIVE TagsLoop_lastBad(_, _)
TagsLoop_lastBad(tags, i) ==
  IF i > Len(tags)
    THEN NoError
    ELSE IF TagsLoop_lastBad(tags, i + 1) # NoError
           THEN TagsLoop_lastBad(tags, i + 1)
           ELSE IF Len(tags[i]) = 0
                  THEN Err(3, i - 1, "empty tag")
                  ELSE NoError

\* for i, t := range o.Tags, from the element at index i (one-based here)
RECURSIVE TagsLoop(_, _)
TagsLoop(tags, i) ==
  IF i > Len(tags)
    THEN NoError
    ELSE IF TagValid(tags[i]) # "nil"
           THEN Err(3, i - 1, TagValid(tags[i]))
           ELSE TagsLoop(tags, i + 1)

\* for i, r := range *o.DependentRims
RECURSIVE RimsLoop(_, _)
RimsLoop(rims, i) ==
  IF i > Len(rims)
    THEN NoError
    ELSE IF LocatorValid(rims[i]) # "nil"
           THEN Err(4, i - 1, LocatorValid(rims[i]))
           ELSE RimsLoop(rims, i + 1)

\* for i, p := range *o.Profiles
RECURSIVE ProfilesLoop(_, _)
ProfilesLoop(profiles, i) ==
  IF i > Len(profiles)
    THEN NoError
    ELSE IF ValidProfile(profiles[i]) # "nil"
           THEN Err(5, i - 1, ValidProfile(profiles[i]))
           ELSE ProfilesLoop(profiles, i + 1)

\* Valid as it would be with the tag list checked before the id
Valid_tagsFirst(c) ==
  IF Len(c.Tags) = 0
    THEN Err(2, 0, "no tags")
    ELSE IF c.ID = EmptyTagID
      THEN Err(1, 0, "empty id")
      ELSE IF TagsLoop(c.Tags, 1) # NoError
        THEN TagsLoop(c.Tags, 1)
        ELSE IF c.DependentRims.present /\ RimsLoop(c.DependentRims.items, 1) # NoError
          THEN RimsLoop(c.DependentRims.items, 1)
          ELSE IF c.Profiles.present /\ ProfilesLoop(c.Profiles.items, 1) # NoError
            THEN ProfilesLoop(c.Profiles.items, 1)
            ELSE NoError

Valid(c) ==
  IF c.ID = EmptyTagID
    THEN Err(1, 0, "empty id")
    ELSE IF Len(c.Tags) = 0
      THEN Err(2, 0, "no tags")
      ELSE IF TagsLoop(c.Tags, 1) # NoError
        THEN TagsLoop(c.Tags, 1)
        ELSE IF c.DependentRims.present /\ RimsLoop(c.DependentRims.items, 1) # NoError
          THEN RimsLoop(c.DependentRims.items, 1)
          ELSE IF c.Profiles.present /\ ProfilesLoop(c.Profiles.items, 1) # NoError
            THEN ProfilesLoop(c.Profiles.items, 1)
            ELSE NoError

(***************************************************************************)
(* The codec.  The struct tags give each field its key in the binary form  *)
(* and its name in the text form, and mark the optional fields.  A wire    *)
(* document is [fmt, fields]: the format it is written in and its map from *)
(* keys to values.  The values of the collaborators' types (TagID, Tag     *)
(* bytes, HashEntry, Profile) are carried as they are.                     *)
(***************************************************************************)
CborKey(f) ==
  CASE f = "ID"            -> 0
    [] f = "Tags"          -> 1
    [] f = "DependentRims" -> 2
    [] f = "Profiles"      -> 3

JsonName(f) ==
  CASE f = "ID"            -> "corim-id"
    [] f = "Tags"          -> "tags"
    [] f = "DependentRims" -> "dependent-rims"
    [] f = "Profiles"      -> "profiles"

\* the fields tagged omitempty
OmitEmpty(f) == f \in {"DependentRims", "Profiles"}

LocatorCborKey(f) ==
  CASE f = "Href"       -> 0
    [] f = "Thumbprint" -> 1

LocatorJsonName(f) ==
  CASE f = "Href"       -> "href"
    [] f = "Thumbprint" -> "thumbprint"

\* Thumbprint is tagged omitempty
LocatorOmitEmpty(f) == f = "Thumbprint"

FieldKey(fmt, f) == IF fmt = "cbor" THEN CborKey(f) ELSE JsonName(f)

LocatorFieldKey(fmt, f) == IF fmt = "cbor" THEN LocatorCborKey(f) ELSE LocatorJsonName(f)

\* a Locator as a wire map: href always, thumbprint unless it is nil
MarshalLocator(fmt, l) ==
  LET enc == {f \in {"Href", "Thumbprint"} :
                ~(LocatorOmitEmpty(f) /\ l[f] = NilHashEntry)}
  IN  [k \in {LocatorFieldKey(fmt, f) : f \in enc} |->
         l[CHOOSE f \in enc : LocatorFieldKey(fmt, f) = k]]

RECURSIVE MarshalLocators(_, _)
MarshalLocators(fmt, s) ==
  IF s = <<>>
    THEN <<>>
    ELSE <<MarshalLocator(fmt, Head(s))>> \o MarshalLocators(fmt, Tail(s))

\* a wire map as a Locator: a key the map lacks leaves the zero value
UnmarshalLocator(fmt, w) ==
  [Href       |-> IF LocatorFieldKey(fmt, "Href") \in DOMAIN w
                    THEN w[LocatorFieldKey(fmt, "Href")] ELSE "",
   Thumbprint |-> IF LocatorFieldKey(fmt, "Thumbprint") \in DOMAIN w
                    THEN w[LocatorFieldKey(fmt, "Thumbprint")] ELSE NilHashEntry]

RECURSIVE UnmarshalLocators(_, _)
UnmarshalLocators(fmt, s) ==
  IF s = <<>>
    THEN <<>>
    ELSE <<UnmarshalLocator(fmt, Head(s))>> \o UnmarshalLocators(fmt, Tail(s))

\* the encoder: every field under its key, an optional field that is nil
\* left out of the map
Marshal(c, fmt) ==
  LET enc == {f \in {"ID", "Tags", "DependentRims", "Profiles"} :
                ~(OmitEmpty(f) /\ ~c[f].present)}
      WireValue(f) ==
        CASE f = "ID"            -> c.ID
          [] f = "Tags"          -> c.Tags
          [] f = "DependentRims" -> MarshalLocators(fmt, c.DependentRims.items)
          [] f = "Profiles"      -> c.Profiles.items
  IN  [fmt    |-> fmt,
       fields |-> [k \in {FieldKey(fmt, f) : f \in enc} |->
                     WireValue(CHOOSE f \in enc : FieldKey(fmt, f) = k)]]

\* the decoder, into the target c: bytes of another format are an error;
\* a field whose key the document holds is set from it and no other field
\* is touched.  No validation is done.
Unmarshal(data, c, fmt) ==
  LET Has(f) == FieldKey(fmt, f) \in DOMAIN data.fields
      Get(f) == data.fields[FieldKey(fmt, f)]
  IN  IF data.fmt # fmt
        THEN [o |-> c, err |-> TRUE]
        ELSE [o |-> [ID   |-> IF Has("ID") THEN Get("ID") ELSE c.ID,
                     Tags |-> IF Has("Tags") THEN Get("Tags") ELSE c.Tags,
                     DependentRims |->
                       IF Has("DependentRims")
                         THEN [present |-> TRUE,
                               items |-> UnmarshalLocators(fmt, Get("DependentRims"))]
                         ELSE c.DependentRims,
                     Profiles |->
                       IF Has("Profiles")
                         THEN [present |-> TRUE, items |-> Get("Profiles")]
                         ELSE c.Profiles],
              err |-> FALSE]

ToCBOR(c) == [bytes |-> Marshal(c, "cbor"), err |-> FALSE]

\* the text serializer of the container
ToJSON(c) == [bytes |-> Marshal(c, "json"), err |-> FALSE]

\* FromCBOR as it would be if it called the text decoder
FromCBOR_textDecoder(c, data) == Unmarshal(data, c, "json")

FromCBOR(c, data) == Unmarshal(data, c, "cbor")

FromJSON(c, data) == Unmarshal(data, c, "json")

(***************************************************************************)
(* The documents the decoders are given.                                   *)
(***************************************************************************)
\* a document holding one field
FieldDoc(fmt, f, w) == [fmt |-> fmt, fields |-> [k \in {FieldKey(fmt, f)} |-> w]]

WireIDs == { NewTagID(v) : v \in {x \in IDInputs : NewTagID(x) # NilTagID} }

WireTagLists ==
  { <<>>, << <<>> >>, << comidTag \o <<160>> >>,
    << comidTag \o <<160>>, <<>> >>, << <<>>, <<>> >> }

WireLocatorLists(fmt) ==
  { <<>> } \cup
  { << MarshalLocator(fmt, [Href |-> l.href, Thumbprint |-> l.thumbprint]) >> :
      l \in LocatorInputs }

WireProfileLists == { <<>>, <<URIProfile>>, <<ZeroProfile>> }

\* a complete document
SampleCorim ==
  [ID            |-> [kind |-> "string", val |-> "corim-1"],
   Tags          |-> << coswidTag \o <<160>> >>,
   DependentRims |-> NilList,
   Profiles      |-> [present |-> TRUE, items |-> <<OIDProfile>>]]

WireDocs(fmt) ==
  { FieldDoc(fmt, "ID", w) : w \in WireIDs } \cup
  { FieldDoc(fmt, "Tags", w) : w \in WireTagLists } \cup
  { FieldDoc(fmt, "DependentRims", w) : w \in WireLocatorLists(fmt) } \cup
  { FieldDoc(fmt, "Profiles", w) : w \in WireProfileLists } \cup
  { Marshal(SampleCorim, fmt) }

\* what a decoder may be handed: the documents of its format and one of
\* the other format
DecoderInputs(fmt, given) ==
  IF given = fmt THEN WireDocs(fmt) ELSE { Marshal(SampleCorim, given) }

(***************************************************************************)
(* The state machine.                                                      *)
(***************************************************************************)
Call(op, recv, arg) == [op |-> op, recv |-> recv, arg |-> arg]

Init ==
  /\ o = NewUnsignedCorim
  /\ ret = "self"
  /\ last = Call("NewUnsignedCorim", "self", FALSE)

\* a builder is called on the container, or, in a chain, on what the
\* previous builder returned
Receivers == {"self", ret}

Builders == {"SetID", "AddComid", "AddCoswid", "AddDependentRim", "AddProfile"}

CallSetID ==
  \E recv \in Receivers, v \in IDInputs :
    LET r == SetID(recv, o, v) IN
      /\ o' = r.o
      /\ ret' = r.ret
      /\ last' = Call("SetID", recv, v)

CallAddComid ==
  \E recv \in Receivers, doc \in Docs :
    LET r == AddComid(recv, o, doc) IN
      /\ Items(o) < MaxItems
      /\ o' = r.o
      /\ ret' = r.ret
      /\ last' = Call("AddComid", recv, doc)

CallAddCoswid ==
  \E recv \in Receivers, doc \in Docs :
    LET r == AddCoswid(recv, o, doc) IN
      /\ Items(o) < MaxItems
      /\ o' = r.o
      /\ ret' = r.ret
      /\ last' = Call("AddCoswid", recv, doc)

CallAddDependentRim ==
  \E recv \in Receivers, l \in LocatorInputs :
    LET r == AddDependentRim(recv, o, l.href, l.thumbprint) IN
      /\ Items(o) < MaxItems
      /\ o' = r.o
      /\ ret' = r.ret
      /\ last' = Call("AddDependentRim", recv, l)

CallAddProfile ==
  \E recv \in Receivers, s \in ProfileInputs :
    LET r == AddProfile(recv, o, s) IN
      /\ Items(o) < MaxItems
      /\ o' = r.o
      /\ ret' = r.ret
      /\ last' = Call("AddProfile", recv, s)

\* Valid has a value receiver: it works on a copy
CallValid ==
  /\ last' = Call("Valid", "self", Valid(o))
  /\ UNCHANGED <<o, ret>>

CallToCBOR ==
  /\ last' = Call("ToCBOR", "self", ToCBOR(o).err)
  /\ UNCHANGED <<o, ret>>

CallFromCBOR ==
  \E given \in {"cbor", "json"} :
    \E data \in DecoderInputs("cbor", given) :
      LET r == FromCBOR(o, data) IN
        /\ Items(r.o) <= MaxItems
        /\ o' = r.o
        /\ last' = Call("FromCBOR", "self", r.err)
        /\ UNCHANGED ret

CallFromJSON ==
  \E given \in {"cbor", "json"} :
    \E data \in DecoderInputs("json", given) :
      LET r == FromJSON(o, data) IN
        /\ Items(r.o) <= MaxItems
        /\ o' = r.o
        /\ last' = Call("FromJSON", "self", r.err)
        /\ UNCHANGED ret

Next ==
  \/ CallSetID
  \/ CallAddComid
  \/ CallAddCoswid
  \/ CallAddDependentRim
  \/ CallAddProfile
  \/ CallValid
  \/ CallToCBOR
  \/ CallFromCBOR
  \/ CallFromJSON

Spec == Init /\ [][Next]_vars

\* the container built by builder calls alone: nothing is decoded into it
BuildNext ==
  \/ CallSetID
  \/ CallAddComid
  \/ CallAddCoswid
  \/ CallAddDependentRim
  \/ CallAddProfile
  \/ CallValid
  \/ CallToCBOR

BuildSpec == Init /\ [][BuildNext]_vars

(***************************************************************************)
(* Properties.                                                             *)
(***************************************************************************)
\* the call that led to the next state
IsCall(c, ops, recv) == c.op \in ops /\ c.recv = recv

EmptyHrefArg == [href |-> "", thumbprint |-> NilHashEntry]

BadTagAt(c, i) == Len(c.Tags[i]) = 0

BadRim(l) ==
  \/ l.Href = ""
  \/ l.Thumbprint # NilHashEntry
       /\ ~ValidHashEntry(l.Thumbprint.HashAlgID, l.Thumbprint.HashValue)

BadProfile(p) == p.kind \notin {"uri", "oid"}

IDFails(c) == c.ID = EmptyTagID

NoTagsFails(c) == Len(c.Tags) = 0

TagFails(c) == \E i \in 1..Len(c.Tags) : BadTagAt(c, i)

RimFails(c) ==
  c.DependentRims.present
    /\ \E i \in 1..Len(c.DependentRims.items) : BadRim(c.DependentRims.items[i])

ProfileFails(c) ==
  c.Profiles.present
    /\ \E i \in 1..Len(c.Profiles.items) : BadProfile(c.Profiles.items[i])

\* C1: AddComid or AddCoswid called on the container with a document that
\* its own validator rejects returns nil and leaves the tag list as it was.
C1_RejectedDocLeavesTags ==
  [][ (IsCall(last', {"AddComid", "AddCoswid"}, "self") /\ ~DocValid(last'.arg))
        => (ret' = "nil" /\ o'.Tags = o.Tags) ]_vars

\* C2: a builder call that returns nil leaves all four fields of the
\* container as they were, a nil DependentRims or Profiles still nil.
C2_FailureLeavesContainer ==
  [][ (last'.op \in Builders /\ ret' = "nil") => o' = o ]_vars

\* C2 witness: AddProfile has failed on a container whose profile list is
\* still nil and whose other fields are set.
C2_Witness ==
  /\ IsCall(last, {"AddProfile"}, "self")
  /\ ret = "nil"
  /\ ~o.Profiles.present
  /\ o.ID # EmptyTagID
  /\ Len(o.Tags) = 1

\* C3: after AddComid or AddCoswid succeeds, the tag list is the previous
\* one with one Tag appended: D9 01 FA (AddComid) or D9 01 F9 (AddCoswid)
\* followed by just the bytes the document's serializer returned.
C3_TagIsPrefixThenBytes ==
  [][ (IsCall(last', {"AddComid", "AddCoswid"}, "self") /\ ret' = "self")
        => o'.Tags =
             Append(o.Tags,
                    (IF last'.op = "AddComid" THEN <<217, 1, 250>> ELSE <<217, 1, 249>>)
                      \o DocToCBOR(last'.arg).bytes) ]_vars

\* C3 witness: AddCoswid has appended a second Tag, D9 01 F9 A1 00.
C3_Witness ==
  /\ IsCall(last, {"AddCoswid"}, "self")
  /\ ret = "self"
  /\ Len(o.Tags) = 2
  /\ o.Tags[2] = <<217, 1, 249, 161, 0>>
  /\ o.Tags[1] = <<217, 1, 250, 160>>

C5_EmptyTagAtItsIndex ==
  \A i \in 1..Len(o.Tags) :
    BadTagAt(o, i) => (Valid(o).cat = 3 /\ Valid(o).pos = i - 1)

\* C5 amended: when the id is not empty, the first empty Tag, at index i,
\* makes Valid fail with a tag error at position i, cause "empty tag".
C5_FirstEmptyTagAtItsIndex ==
  \A i \in 1..Len(o.Tags) :
    (~IDFails(o) /\ BadTagAt(o, i) /\ \A j \in 1..(i - 1) : ~BadTagAt(o, j))
      => Valid(o) = Err(3, i - 1, "empty tag")

\* C5 witness: Valid has reported the empty Tag that follows a good one.
C5_Witness ==
  /\ last.op = "Valid"
  /\ last.arg = Err(3, 1, "empty tag")
  /\ Len(o.Tags[1]) > 0

\* C6 as claimed: AddDependentRim("", nil) succeeds and Valid then fails
\* with a dependent RIM error at position 0, cause "empty href".
C6_EmptyHrefReported ==
  (IsCall(last, {"AddDependentRim"}, "self") /\ last.arg = EmptyHrefArg)
    => (ret = "self" /\ Valid(o) = Err(4, 0, "empty href"))

\* C6 amended: AddDependentRim("", nil) on the container succeeds without
\* validating (the list is made if it was nil and one Locator is appended),
\* and Valid then never succeeds; when the id is not empty, the tag list is
\* not empty and holds no empty Tag, and the list held no Locator before the
\* call, Valid fails with a dependent RIM error at position 0, "empty href".
C6_EmptyHrefAccepted ==
  [][ (IsCall(last', {"AddDependentRim"}, "self") /\ last'.arg = EmptyHrefArg)
        => /\ ret' = "self"
           /\ o'.DependentRims =
                [present |-> TRUE,
                 items |-> Append(o.DependentRims.items,
                                  [Href |-> "", Thumbprint |-> NilHashEntry])]
           /\ Valid(o') # NoError
           /\ (~IDFails(o') /\ ~NoTagsFails(o') /\ ~TagFails(o')
                 /\ Len(o.DependentRims.items) = 0)
                => Valid(o') = Err(4, 0, "empty href") ]_vars

\* C6 witness: after AddDependentRim("", nil) Valid reports the empty href
\* at position 0.
C6_Witness ==
  /\ IsCall(last, {"AddDependentRim"}, "self")
  /\ last.arg = EmptyHrefArg
  /\ Valid(o) = Err(4, 0, "empty href")

Rejected(c) ==
  CASE c.op = "SetID"           -> NewTagID(c.arg) = NilTagID
    [] c.op = "AddComid"        -> ~c.arg.valid \/ c.arg.encErr
    [] c.op = "AddCoswid"       -> c.arg.encErr
    [] c.op = "AddDependentRim" -> FALSE
    [] c.op = "AddProfile"      -> c.arg = "not-a-uri-not-an-oid"

\* C8: a builder returns its receiver when it succeeds and nil when it
\* fails; called on the nil a failed call returned, it changes nothing and
\* returns nil, so a chain ends in nil once a call has failed.
C8_ChainReturns ==
  [][ last'.op \in Builders
        => /\ last'.recv = "self" => (ret' = (IF Rejected(last') THEN "nil" ELSE "self"))
           /\ last'.recv = "nil" => (ret' = "nil" /\ o' = o)
           /\ (ret = "nil" /\ last'.recv = ret) => (ret' = "nil" /\ o' = o)
           /\ ret' = "nil" => o' = o ]_vars

\* C8 witness: a builder was called on the nil of a failed chain, on a
\* container that already holds a tag.
C8_Witness ==
  /\ IsCall(last, {"AddDependentRim"}, "nil")
  /\ ret = "nil"
  /\ Len(o.Tags) = 1
  /\ ~o.DependentRims.present

\* C9: a builder that succeeds changes its own field only: SetID replaces
\* the id; AddComid, AddCoswid, AddDependentRim and AddProfile append one
\* element to their list, keeping the earlier ones where they were.
C9_OwnFieldOnly ==
  [][ (IsCall(last', Builders, "self") /\ ret' = "self")
        => /\ last'.op = "SetID"
                => o' = [o EXCEPT !.ID = NewTagID(last'.arg)]
           /\ last'.op \in {"AddComid", "AddCoswid"}
                => /\ Len(o'.Tags) = Len(o.Tags) + 1
                   /\ \A i \in 1..Len(o.Tags) : o'.Tags[i] = o.Tags[i]
                   /\ o' = [o EXCEPT !.Tags = o'.Tags]
           /\ last'.op = "AddDependentRim"
                => /\ o'.DependentRims.present
                   /\ o'.DependentRims.items =
                        Append(o.DependentRims.items,
                               [Href |-> last'.arg.href,
                                Thumbprint |-> last'.arg.thumbprint])
                   /\ o' = [o EXCEPT !.DependentRims = o'.DependentRims]
           /\ last'.op = "AddProfile"
                => /\ o'.Profiles.present
                   /\ o'.Profiles.items = Append(o.Profiles.items, NewProfile(last'.arg).p)
                   /\ o' = [o EXCEPT !.Profiles = o'.Profiles] ]_vars

\* C9 witness: AddDependentRim has appended a second, different Locator.
C9_Witness ==
  /\ IsCall(last, {"AddDependentRim"}, "self")
  /\ Len(o.DependentRims.items) = 2
  /\ o.DependentRims.items[1] # o.DependentRims.items[2]
  /\ o.DependentRims.items[2].Href = last.arg.href

\* C10: in a container built by builder calls alone every Tag is at least
\* 3 bytes long and every profile is a URI or an OID, so Valid fails only
\* for the id, the empty tag list or a dependent RIM.
C10_BuiltTagsAndProfiles ==
  /\ \A i \in 1..Len(o.Tags) : Len(o.Tags[i]) >= 3
  /\ \A i \in 1..Len(o.Profiles.items) :
       o.Profiles.items[i].kind \in {"uri", "oid"}
  /\ Valid(o).cat \in {0, 1, 2, 4}

\* C10 witness: Valid has reported a dependent RIM error on a built
\* container that holds a tag.
C10_Witness ==
  /\ last.op = "Valid"
  /\ last.arg.cat = 4
  /\ Len(o.Tags) = 1

====
